---------------------------- MODULE Spec2Model ----------------------------
(***************************************************************************)
(* Model of the funscript generator (scripts/generate_edging_script.py),   *)
(* the full-stroke verifier (scripts/verify_full_strokes.py) and the       *)
(* analyzer (scripts/analyze_funscript.py).                                *)
(*                                                                         *)
(* Numbers.  Times are integer milliseconds and positions are integers,    *)
(* as in the code.  The speed multiplier is a float in the code; here it   *)
(* is an integer number of thousandths (1000 stands for 1.0).  Every       *)
(* int(...) of a float expression is computed exactly, as the truncation   *)
(* of the rational value.  sin and the cosine easing are tabulated in      *)
(* millionths.  IEEE rounding makes the code's value one unit smaller than *)
(* the exact one in a few inputs where the exact quotient is an integer    *)
(* (about 0.2% of the eased positions and 0.04% of the intermediate        *)
(* timestamps); the endpoints of every segment are exact in both.          *)
(*                                                                         *)
(* Randomness.  The code draws from Python's unseeded generator.  Every    *)
(* operator that draws takes its draws as parameters.  The scheduler       *)
(* takes them from a pseudo-random stream (rng) whose seed is chosen in    *)
(* Init; the specifications of the single functions choose them with \E.   *)
(* The seeds are NumSeeds spread over the stream's states, and a few whose *)
(* runs take rare branches (a pause of length 0, a full stroke entered at  *)
(* 49, at 50 or where the stroke before it ended).                         *)
(*                                                                         *)
(* Specifications.  Spec is a whole run of generate_edging_script.         *)
(* SpecDuration calls calculate_duration, SpecSegments calls one of the    *)
(* four segment generators, and SpecTimeline runs the finalizer's sort and *)
(* deduplication, the analyzer or the verifier on a given list of actions. *)
(***************************************************************************)
EXTENDS Integers, Sequences, FiniteSets

VARIABLES
    pc,                 \* position in the program being run
    actions,            \* generate_edging_script: the accumulated samples
    current_time,       \* generate_edging_script: current_time
    current_pos,        \* generate_edging_script: current_pos
    full_stroke_times,  \* generate_edging_script: sorted trigger times
    full_stroke_index,  \* generate_edging_script: next trigger (0-based)
    next_speed_change,  \* generate_edging_script: next boundary
    speed_multiplier,   \* generate_edging_script: in thousandths
    in_speed_variation, \* generate_edging_script: the SPEED_BOOSTED flag
    unique_actions,     \* generate_edging_script: the returned timeline
    rng,                \* state of the random stream
    step,               \* history: what the last step of the program did
    args,               \* single-function runs: the arguments of the call
    ret                 \* single-function runs: the value returned

vars == <<pc, actions, current_time, current_pos, full_stroke_times,
          full_stroke_index, next_speed_change, speed_multiplier,
          in_speed_variation, unique_actions, rng, step, args, ret>>

---------------------------------------------------------------------------
(* Constants of the program *)

DURATION_MS == 30 * 60 * 1000
SPEED_VARIATION_INTERVAL == 60 * 1000
BASE_MS_PER_UNIT == 150
\* UP_SPEED_MULTIPLIER = 1.50, as the fraction UP_SPEED_NUM / UP_SPEED_DEN
UP_SPEED_NUM == 3
UP_SPEED_DEN == 2
\* BASE_SPEED = 1.0 in thousandths
BASE_SPEED == 1000
NUM_FULL_STROKES == 5
STROKE_MARGIN_MS == 60000
OVERSHOOT_MS == 60000
MAX_PAUSE_MS == 3000
STROKE_MIN_MS == 10000
STROKE_MAX_MS == 12000
PAUSE_PERCENT == 15
TEASE_PERCENT == 15
BOOST_MIN == 100
BOOST_MAX == 300
CLOSING_POS == 50
START_POS == 50
VERIFY_WINDOW_MS == 15000

\* Bounds of the model
NumSeeds == 8
\* single-function runs: positions on a grid of this stride, plus a few others
PosStride == 5
\* single-function runs: timelines of at most this many actions, with
\* timestamps up to MaxAt
MaxTimelineLen == 4
MaxAt == 2
\* Fixed point used for the multiplier and for the trigonometric tables
Milli == 10^3
Micro == 10^6

---------------------------------------------------------------------------
(* Arithmetic helpers *)

\* Python's int() of a rational a/b, b > 0: truncation toward zero
TruncDiv(a, b) == IF a >= 0 THEN a \div b ELSE -((-a) \div b)

Abs(x) == IF x >= 0 THEN x ELSE -x

\* Clamp left out
Clamp_missing(p) == p

\* max(0, min(100, p))
Clamp(p) == IF p < 0 THEN 0 ELSE IF p > 100 THEN 100 ELSE p

Action(t, p) == [at |-> t, pos |-> p]

Last(s) == s[Len(s)]

\* round(sin(2*pi*i/n) * 10^6), n = num_points in 5..7, i in 0..n
SinMicro(n, i) ==
    CASE n = 5 -> <<0, 951057, 587785, -587785, -951057, 0>>[i + 1]
      [] n = 6 -> <<0, 866025, 866025, 0, -866025, -866025, 0>>[i + 1]
      [] n = 7 -> <<0, 781831, 974928, 433884, -433884, -974928, -781831, 0>>[i + 1]

\* round((cos((1 - i/n)*pi) + 1)/2 * 10^6), n = num_points in 8..10, i in 0..n
EasedMicro(n, i) ==
    CASE n = 8 -> <<0, 38060, 146447, 308658, 500000, 691342, 853553,
                    961940, 1000000>>[i + 1]
      [] n = 9 -> <<0, 30154, 116978, 250000, 413176, 586824, 750000,
                    883022, 969846, 1000000>>[i + 1]
      [] n = 10 -> <<0, 24472, 95492, 206107, 345492, 500000, 654508,
                     793893, 904508, 975528, 1000000>>[i + 1]

---------------------------------------------------------------------------
(* Duration Model *)

\* calculate_duration without the division of lines 27-28
calculate_duration_same_both_ways(distance, going_up, speed_mult) ==
    (distance * BASE_MS_PER_UNIT * Milli) \div speed_mult

\* int(distance * 150 / speed_multiplier), divided by 1.5 first when going up
calculate_duration(distance, going_up, speed_mult) ==
    LET num == distance * BASE_MS_PER_UNIT * Milli
    IN  IF going_up
        THEN (num * UP_SPEED_DEN) \div (speed_mult * UP_SPEED_NUM)
        ELSE num \div speed_mult

---------------------------------------------------------------------------
(* Segment generators.  Each returns [actions, end_time] (and end_pos for  *)
(* the full stroke).                                                       *)

\* num_points is the draw of randint(5, 7); amp[i] the draw of randint(5, 10)
\* made for point i
generate_wave_motion(start_pos, end_pos, start_time, speed_mult, num_points, amp) ==
    LET going_up == end_pos > start_pos
        distance == Abs(end_pos - start_pos)
        base_duration == calculate_duration(distance, going_up, speed_mult)
        wave_offset(i) == IF i \in {0, num_points} THEN 0
                          ELSE amp[i] * SinMicro(num_points, i)
        pos(i) == Clamp(TruncDiv(
                     (start_pos * num_points + (end_pos - start_pos) * i) * Micro
                        + num_points * wave_offset(i),
                     num_points * Micro))
        time(i) == start_time + ((base_duration * i) \div num_points)
    IN  [actions |-> [k \in 1..(num_points + 1) |-> Action(time(k - 1), pos(k - 1))],
         end_time |-> start_time + base_duration]

\* generate_gradual_motion with the timestamps counted down from the end
generate_gradual_motion_reversed_times(start_pos, end_pos, start_time, speed_mult, num_points) ==
    LET going_up == end_pos > start_pos
        distance == Abs(end_pos - start_pos)
        base_duration == calculate_duration(distance, going_up, speed_mult)
        pos(i) == Clamp(TruncDiv(
                     start_pos * Micro + (end_pos - start_pos) * EasedMicro(num_points, i),
                     Micro))
        time(i) == start_time + base_duration - ((base_duration * i) \div num_points)
    IN  [actions |-> [k \in 1..(num_points + 1) |-> Action(time(k - 1), pos(k - 1))],
         end_time |-> start_time + base_duration]

\* num_points is the draw of randint(8, 10)
generate_gradual_motion(start_pos, end_pos, start_time, speed_mult, num_points) ==
    LET going_up == end_pos > start_pos
        distance == Abs(end_pos - start_pos)
        base_duration == calculate_duration(distance, going_up, speed_mult)
        pos(i) == Clamp(TruncDiv(
                     start_pos * Micro + (end_pos - start_pos) * EasedMicro(num_points, i),
                     Micro))
        time(i) == start_time + ((base_duration * i) \div num_points)
    IN  [actions |-> [k \in 1..(num_points + 1) |-> Action(time(k - 1), pos(k - 1))],
         end_time |-> start_time + base_duration]

\* generate_plateau_motion without the final sample of line 115
generate_plateau_motion_no_final(start_pos, end_pos, start_time, speed_mult) ==
    LET going_up == end_pos > start_pos
        distance == Abs(end_pos - start_pos)
        base_duration == calculate_duration(distance, going_up, speed_mult)
        num_segments == 3
        sign == IF going_up THEN 1 ELSE -1
        target_pos(i) == TruncDiv(num_segments * start_pos + distance * (i + 1) * sign,
                                  num_segments)
        segment_duration == base_duration \div (num_segments * 2)
        pos_before(i) == IF i = 0 THEN start_pos ELSE target_pos(i - 1)
        time_before(i) == start_time + 2 * i * segment_duration
        moves == [k \in 1..(2 * num_segments) |->
                    LET i == (k - 1) \div 2
                    IN  IF k % 2 = 1
                        THEN Action(time_before(i), pos_before(i))
                        ELSE Action(time_before(i) + segment_duration, target_pos(i))]
    IN  [actions |-> moves,
         end_time |-> start_time + 2 * num_segments * segment_duration]

generate_plateau_motion(start_pos, end_pos, start_time, speed_mult) ==
    LET going_up == end_pos > start_pos
        distance == Abs(end_pos - start_pos)
        base_duration == calculate_duration(distance, going_up, speed_mult)
        num_segments == 3
        sign == IF going_up THEN 1 ELSE -1
        \* int(start_pos + (distance / 3) * (i + 1) * sign)
        target_pos(i) == TruncDiv(num_segments * start_pos + distance * (i + 1) * sign,
                                  num_segments)
        segment_duration == base_duration \div (num_segments * 2)
        pos_before(i) == IF i = 0 THEN start_pos ELSE target_pos(i - 1)
        time_before(i) == start_time + 2 * i * segment_duration
        moves == [k \in 1..(2 * num_segments) |->
                    LET i == (k - 1) \div 2
                    IN  IF k % 2 = 1
                        THEN Action(time_before(i), pos_before(i))
                        ELSE Action(time_before(i) + segment_duration, target_pos(i))]
        end_time == start_time + 2 * num_segments * segment_duration
    IN  [actions |-> Append(moves, Action(end_time, end_pos)),
         end_time |-> end_time]

\* A pause of up to two minutes: forty times the draw
add_pause_forty_fold(start_time, pause_duration) == start_time + 40 * pause_duration

\* pause_duration is the draw of randint(0, 3000)
add_pause(start_time, pause_duration) == start_time + pause_duration

\* generate_full_stroke with each leg shortened by the speed multiplier
generate_full_stroke_scaled(start_pos, start_time, speed_mult, total_duration) ==
    LET positions == IF start_pos < 50 THEN <<start_pos, 100, 0>>
                                       ELSE <<start_pos, 0, 100>>
        going_up_first == positions[2] > positions[1]
        up_duration == (total_duration * UP_SPEED_DEN * Milli)
                          \div (2 * UP_SPEED_NUM * speed_mult)
        down_duration == (total_duration * Milli) \div (2 * speed_mult)
        first_duration == IF going_up_first THEN up_duration ELSE down_duration
        second_duration == IF going_up_first THEN down_duration ELSE up_duration
        first(i) == Action(start_time + ((first_duration * i) \div 7),
                           TruncDiv(positions[1] * 7 + (positions[2] - positions[1]) * i, 7))
        second(i) == Action(start_time + first_duration + ((second_duration * i) \div 7),
                            TruncDiv(positions[2] * 7 + (positions[3] - positions[2]) * i, 7))
    IN  [actions |-> [k \in 1..15 |-> IF k <= 8 THEN first(k - 1) ELSE second(k - 8)],
         end_time |-> start_time + first_duration + second_duration,
         end_pos |-> positions[3]]

\* generate_full_stroke that goes up first wherever it starts
generate_full_stroke_up_first(start_pos, start_time, speed_mult, total_duration) ==
    LET positions == <<start_pos, 100, 0>>
        first_duration == (total_duration * UP_SPEED_DEN) \div (2 * UP_SPEED_NUM)
        second_duration == total_duration \div 2
        first(i) == Action(start_time + ((first_duration * i) \div 7),
                           TruncDiv(positions[1] * 7 + (positions[2] - positions[1]) * i, 7))
        second(i) == Action(start_time + first_duration + ((second_duration * i) \div 7),
                            TruncDiv(positions[2] * 7 + (positions[3] - positions[2]) * i, 7))
    IN  [actions |-> [k \in 1..15 |-> IF k <= 8 THEN first(k - 1) ELSE second(k - 8)],
         end_time |-> start_time + first_duration + second_duration,
         end_pos |-> positions[3]]

\* total_duration is the draw of randint(10000, 12000); speed_mult is not read
generate_full_stroke(start_pos, start_time, speed_mult, total_duration) ==
    LET positions == IF start_pos < 50 THEN <<start_pos, 100, 0>>
                                       ELSE <<start_pos, 0, 100>>
        going_up_first == positions[2] > positions[1]
        first_duration == IF going_up_first
                          THEN (total_duration * UP_SPEED_DEN) \div (2 * UP_SPEED_NUM)
                          ELSE total_duration \div 2
        going_up_second == positions[3] > positions[2]
        second_duration == IF going_up_second
                           THEN (total_duration * UP_SPEED_DEN) \div (2 * UP_SPEED_NUM)
                           ELSE total_duration \div 2
        first(i) == Action(start_time + ((first_duration * i) \div 7),
                           TruncDiv(positions[1] * 7 + (positions[2] - positions[1]) * i, 7))
        second(i) == Action(start_time + first_duration + ((second_duration * i) \div 7),
                            TruncDiv(positions[2] * 7 + (positions[3] - positions[2]) * i, 7))
    IN  [actions |-> [k \in 1..15 |-> IF k <= 8 THEN first(k - 1) ELSE second(k - 8)],
         end_time |-> start_time + first_duration + second_duration,
         end_pos |-> positions[3]]

---------------------------------------------------------------------------
(* The random stream.  Python's generator is a deterministic stream with   *)
(* an unpredictable seed; the stream here is a Lehmer generator, and each  *)
(* draw reads the state and advances it.                                   *)

RNG_MODULUS == 65537
RNG_MULTIPLIER == 75

RngNext(r) == (r * RNG_MULTIPLIER) % RNG_MODULUS

RECURSIVE RngAt(_, _)
\* the state of the stream after k draws
RngAt(r, k) == IF k = 0 THEN r ELSE RngAt(RngNext(r), k - 1)

\* The seeds Init chooses from, spread over the states of the stream
\* Seeds whose runs take branches that are rare: the first iteration draws
\* a pause of length 0 (22763, 50233); a full stroke starts at position 50
\* (2355) or 49 (2883); a full stroke starts where the one before it ended,
\* at 0 (1736) or at 100 (13)
RareSeeds == {22763, 50233, 2355, 2883, 1736, 13}

Seeds == {1 + ((k * 7919) % (RNG_MODULUS - 1)) : k \in 1..NumSeeds} \cup RareSeeds

\* random.randint(lo, hi) read from stream state r
randint(r, lo, hi) == lo + (r % (hi - lo + 1))

\* random.random() < percent / 100 read from stream state r
chance(r, percent) == (r % 100) < percent

\* random.choice(seq) read from stream state r
choice(r, seq) == seq[1 + (r % Len(seq))]

\* random.randint(60000, DURATION_MS - 60000): the range is wider than the
\* stream's modulus, so the seconds and the milliseconds are drawn apart
stroke_time(r) ==
    LET lo == STROKE_MARGIN_MS
        hi == DURATION_MS - STROKE_MARGIN_MS
        secs == (hi - lo) \div Milli
    IN  IF secs = 0 THEN randint(r, lo, hi)
        ELSE lo + Milli * randint(r, 0, secs - 1) + randint(RngNext(r), 0, Milli)

RECURSIVE Insert(_, _)
\* x put after the elements of the sorted sequence s that are <= x
Insert(s, x) ==
    IF s = <<>> THEN <<x>>
    ELSE IF Last(s) <= x THEN Append(s, x)
    ELSE Append(Insert(SubSeq(s, 1, Len(s) - 1), x), Last(s))

RECURSIVE SortedInts(_)
\* sorted(list of integers)
SortedInts(s) ==
    IF s = <<>> THEN <<>>
    ELSE Insert(SortedInts(SubSeq(s, 1, Len(s) - 1)), Last(s))

\* sorted([random.randint(60000, DURATION_MS - 60000) for _ in range(5)])
draw_full_stroke_times(r) ==
    SortedInts([k \in 1..NUM_FULL_STROKES |-> stroke_time(RngAt(r, 2 * (k - 1)))])

---------------------------------------------------------------------------
(* Timeline Finalizer *)

\* The merge of two sequences sorted by at, a's elements first among equals
MergeByAt(a, b) ==
    IF a = <<>> THEN b
    ELSE IF b = <<>> THEN a
    ELSE IF Last(a).at <= b[1].at THEN a \o b
    ELSE LET place_a(i) == i + Cardinality({j \in 1..Len(b) : b[j].at < a[i].at})
             place_b(j) == j + Cardinality({i \in 1..Len(a) : a[i].at <= b[j].at})
         IN  [k \in 1..(Len(a) + Len(b)) |->
                IF \E i \in 1..Len(a) : place_a(i) = k
                THEN a[CHOOSE i \in 1..Len(a) : place_a(i) = k]
                ELSE b[CHOOSE j \in 1..Len(b) : place_b(j) = k]]

RECURSIVE SortRange(_, _, _)
\* s[lo..hi] sorted by at, stable
SortRange(s, lo, hi) ==
    IF lo > hi THEN <<>>
    ELSE IF lo = hi THEN <<s[lo]>>
    ELSE LET mid == (lo + hi) \div 2
         IN  MergeByAt(SortRange(s, lo, mid), SortRange(s, mid + 1, hi))

\* sorted(actions, key=lambda x: x["at"])
SortByAt(s) == SortRange(s, 1, Len(s))

\* dedupe_visit without the test of line 246
dedupe_visit_keeps_all(last_time, action) ==
    [unique_actions |-> <<action>>, last_time |-> action.at]

\* One pass of the loop "for action in actions" (lines 245-248): what it
\* appends to unique_actions, and last_time after it
dedupe_visit(last_time, action) ==
    IF action.at # last_time
    THEN [unique_actions |-> <<action>>, last_time |-> action.at]
    ELSE [unique_actions |-> <<>>, last_time |-> last_time]

RECURSIVE dedupe_loop(_, _, _, _)
\* The loop run over s[lo..hi] entered with last_time: what it appends to
\* unique_actions, and last_time after it.  The range is split in two, the
\* second half entered with the last_time the first half leaves, so that
\* the evaluation stays shallow on long timelines
dedupe_loop(s, lo, hi, last_time) ==
    IF lo > hi THEN [unique_actions |-> <<>>, last_time |-> last_time]
    ELSE IF lo = hi THEN dedupe_visit(last_time, s[lo])
    ELSE LET mid == (lo + hi) \div 2
             left == dedupe_loop(s, lo, mid, last_time)
             right == dedupe_loop(s, mid + 1, hi, left.last_time)
         IN  [unique_actions |-> left.unique_actions \o right.unique_actions,
              last_time |-> right.last_time]

\* Dedupe with last_time started at the first timestamp instead of -1
Dedupe_from_first(s) ==
    IF s = <<>> THEN <<>> ELSE dedupe_loop(s, 1, Len(s), s[1].at).unique_actions

\* unique_actions after the loop, entered with last_time = -1 (lines 243-248)
Dedupe(s) == dedupe_loop(s, 1, Len(s), -1).unique_actions

\* Lines 241-250: sort by time and remove duplicates
SortAndDedupe(s) == Dedupe(SortByAt(s))

\* Lines 237-239: the closing sample
needs_closing(s) == Last(s).at < DURATION_MS

with_closing(s) == IF needs_closing(s) THEN Append(s, Action(DURATION_MS, CLOSING_POS)) ELSE s

---------------------------------------------------------------------------
(* Timeline Scheduler: generate_edging_script *)

NoStep == [kind |-> "init", t0 |-> 0, p0 |-> START_POS, speed_changed |-> FALSE,
           pause |-> -1, motion |-> "none", target |-> -1, valve |-> FALSE,
           closing |-> FALSE, n_new |-> 1, n_segment |-> 0]

\* speed_update with the boost kept when the mode returns to normal
speed_update_keeps_boost(r) ==
    IF current_time >= next_speed_change
    THEN IF in_speed_variation
         THEN [speed_multiplier |-> speed_multiplier, in_speed_variation |-> FALSE,
               next_speed_change |-> next_speed_change + SPEED_VARIATION_INTERVAL,
               changed |-> TRUE, draws |-> 0]
         ELSE [speed_multiplier |-> BASE_SPEED + randint(r, BOOST_MIN, BOOST_MAX),
               in_speed_variation |-> TRUE,
               next_speed_change |-> next_speed_change + SPEED_VARIATION_INTERVAL,
               changed |-> TRUE, draws |-> 1]
    ELSE [speed_multiplier |-> speed_multiplier, in_speed_variation |-> in_speed_variation,
          next_speed_change |-> next_speed_change, changed |-> FALSE, draws |-> 0]

\* Lines 182-192 read from stream state r: the new mode, and the draws used
speed_update(r) ==
    IF current_time >= next_speed_change
    THEN IF in_speed_variation
         THEN [speed_multiplier |-> BASE_SPEED, in_speed_variation |-> FALSE,
               next_speed_change |-> next_speed_change + SPEED_VARIATION_INTERVAL,
               changed |-> TRUE, draws |-> 0]
         ELSE [speed_multiplier |-> BASE_SPEED + randint(r, BOOST_MIN, BOOST_MAX),
               in_speed_variation |-> TRUE,
               next_speed_change |-> next_speed_change + SPEED_VARIATION_INTERVAL,
               changed |-> TRUE, draws |-> 1]
    ELSE [speed_multiplier |-> speed_multiplier, in_speed_variation |-> in_speed_variation,
          next_speed_change |-> next_speed_change, changed |-> FALSE, draws |-> 0]

\* stroke_due without the test of the trigger time
stroke_due_any_time == full_stroke_index < Len(full_stroke_times)

\* Line 195: a full stroke is due
stroke_due ==
    /\ full_stroke_index < Len(full_stroke_times)
    /\ current_time >= full_stroke_times[full_stroke_index + 1]

\* choose_target drawing from the whole range of positions
choose_target_full_range(r, pos) == randint(RngNext(r), 0, 100)

\* Lines 213-220 read from stream state r (two draws)
choose_target(r, pos) ==
    IF chance(r, TEASE_PERCENT) THEN choice(RngNext(r), <<15, 20, 85, 90>>)
    ELSE IF pos < 35 THEN randint(RngNext(r), 45, 85)
    ELSE IF pos > 75 THEN randint(RngNext(r), 25, 65)
    ELSE randint(RngNext(r), 25, 85)

\* The held sample appended after every pause, whatever its length
pause_held_always(pause_time, t) == TRUE

\* Line 204: the pause moved the time, and its held sample is appended
pause_held(pause_time, t) == pause_time > t

\* The loop bound taken past the target by the overshoot margin
loop_continues_past_target(t) == t < DURATION_MS + OVERSHOOT_MS

\* Line 180: the condition of the while loop, at time t
loop_continues(t) == t < DURATION_MS

\* The safety check firing a minute before the target instead of after it
safety_valve_before_target(t) == t > DURATION_MS - OVERSHOOT_MS

\* Line 234: the safety check, at time t
safety_valve(t) == t > DURATION_MS + OVERSHOOT_MS

\* Line 209
MotionTypes == <<"wave", "gradual", "plateau", "gradual", "wave">>

Init ==
    \E seed \in Seeds :
        /\ pc = "loop"
        /\ actions = <<Action(0, START_POS)>>
        /\ current_time = 0
        /\ current_pos = START_POS
        /\ full_stroke_times = draw_full_stroke_times(seed)
        /\ full_stroke_index = 0
        /\ next_speed_change = SPEED_VARIATION_INTERVAL
        /\ speed_multiplier = BASE_SPEED
        /\ in_speed_variation = FALSE
        /\ unique_actions = <<>>
        /\ rng = RngAt(seed, 2 * NUM_FULL_STROKES)
        /\ step = NoStep
        /\ args = <<>>
        /\ ret = <<>>

\* One iteration of the while loop that inserts a full stroke (lines 180-199)
FullStrokeStep ==
    /\ pc = "loop"
    /\ LET su == speed_update(rng)
           r1 == RngAt(rng, su.draws)
           total_duration == randint(r1, STROKE_MIN_MS, STROKE_MAX_MS)
           stroke == generate_full_stroke(current_pos, current_time,
                                          su.speed_multiplier, total_duration)
       IN  /\ stroke_due
           /\ speed_multiplier' = su.speed_multiplier
           /\ in_speed_variation' = su.in_speed_variation
           /\ next_speed_change' = su.next_speed_change
           /\ actions' = actions \o stroke.actions
           /\ current_time' = stroke.end_time
           /\ current_pos' = stroke.end_pos
           /\ full_stroke_index' = full_stroke_index + 1
           /\ rng' = RngNext(r1)
           /\ pc' = IF loop_continues(stroke.end_time) THEN "loop" ELSE "exited"
           /\ step' = [kind |-> "stroke", t0 |-> current_time, p0 |-> current_pos,
                       speed_changed |-> su.changed, pause |-> -1, motion |-> "none",
                       target |-> -1, valve |-> FALSE, closing |-> FALSE,
                       n_new |-> Len(stroke.actions),
                       n_segment |-> Len(stroke.actions)]
    /\ UNCHANGED <<full_stroke_times, unique_actions, args, ret>>

\* One iteration of the while loop that emits a regular segment, after a
\* pause if one is drawn (lines 180-192 and 201-235)
RegularStep ==
    /\ pc = "loop"
    /\ LET su == speed_update(rng)
           r1 == RngAt(rng, su.draws)
           \* line 202: random.random() is drawn first, whatever the mode
           pausing == chance(r1, PAUSE_PERCENT) /\ ~su.in_speed_variation
           pause_time == IF pausing
                         THEN add_pause(current_time, randint(RngNext(r1), 0, MAX_PAUSE_MS))
                         ELSE current_time
           held == pausing /\ pause_held(pause_time, current_time)
           time1 == IF held THEN pause_time ELSE current_time
           r2 == RngAt(r1, IF pausing THEN 2 ELSE 1)
           motion_type == choice(r2, MotionTypes)
           r3 == RngNext(r2)
           target_pos == choose_target(r3, current_pos)
           r4 == RngAt(r3, 2)
           wave_points == randint(r4, 5, 7)
           wave_amp == [i \in 0..wave_points |-> randint(RngAt(r4, 1 + i), 5, 10)]
           motion ==
               CASE motion_type = "wave" ->
                      generate_wave_motion(current_pos, target_pos, time1,
                                           su.speed_multiplier, wave_points, wave_amp)
                 [] motion_type = "gradual" ->
                      generate_gradual_motion(current_pos, target_pos, time1,
                                              su.speed_multiplier, randint(r4, 8, 10))
                 [] OTHER ->
                      generate_plateau_motion(current_pos, target_pos, time1,
                                              su.speed_multiplier)
           draws == CASE motion_type = "wave" -> wave_points + 2
                      [] motion_type = "gradual" -> 1
                      [] OTHER -> 0
           valve == safety_valve(motion.end_time)
       IN  /\ ~stroke_due
           /\ speed_multiplier' = su.speed_multiplier
           /\ in_speed_variation' = su.in_speed_variation
           /\ next_speed_change' = su.next_speed_change
           /\ actions' = (IF held THEN Append(actions, Action(pause_time, current_pos))
                                  ELSE actions) \o motion.actions
           /\ current_time' = motion.end_time
           /\ current_pos' = target_pos
           /\ rng' = RngAt(r4, draws)
           /\ pc' = IF valve \/ ~loop_continues(motion.end_time) THEN "exited" ELSE "loop"
           /\ step' = [kind |-> "regular", t0 |-> current_time, p0 |-> current_pos,
                       speed_changed |-> su.changed,
                       pause |-> IF pausing THEN pause_time - current_time ELSE -1,
                       motion |-> motion_type, target |-> target_pos, valve |-> valve,
                       closing |-> FALSE,
                       n_new |-> Len(motion.actions) + (IF held THEN 1 ELSE 0),
                       n_segment |-> Len(motion.actions)]
    /\ UNCHANGED <<full_stroke_times, full_stroke_index, unique_actions, args, ret>>

\* After the loop: the closing sample, the sort and the deduplication
\* (lines 237-250)
Finalize ==
    /\ pc = "exited"
    /\ actions' = SortByAt(with_closing(actions))
    /\ unique_actions' = Dedupe(actions')
    /\ pc' = "done"
    /\ step' = [kind |-> "finalize", t0 |-> current_time, p0 |-> current_pos,
                speed_changed |-> FALSE, pause |-> -1, motion |-> "none",
                target |-> -1, valve |-> step.valve,
                closing |-> needs_closing(actions), n_new |-> 0,
                n_segment |-> 0]
    /\ UNCHANGED <<current_time, current_pos, full_stroke_times, full_stroke_index,
                   next_speed_change, speed_multiplier, in_speed_variation, rng,
                   args, ret>>

Next == FullStrokeStep \/ RegularStep \/ Finalize

Spec == Init /\ [][Next]_vars

---------------------------------------------------------------------------
(* Full-range-cycle Verifier: verify_full_strokes *)

\* Line 16: the samples at an extreme position, in order
extremes_of(timeline) == SelectSeq(timeline, LAMBDA a : a.pos \in {0, 100})

\* Lines 29-30: extremes i, i+1, i+2 (0-based i) form a complete cycle
complete_cycle(extremes, i) ==
    /\ extremes[i + 3].at - extremes[i + 1].at < VERIFY_WINDOW_MS
    /\ extremes[i + 1].pos # extremes[i + 2].pos
    /\ extremes[i + 2].pos # extremes[i + 3].pos

RECURSIVE scan_extremes(_, _, _, _, _)
\* The while loop of lines 23-45 over the candidate positions lo..hi,
\* entered with loop index i and n cycles found: the index and the count it
\* leaves.  A candidate the index has skipped (i += 2) is not examined.
scan_extremes(extremes, lo, hi, i, n) ==
    IF lo > hi THEN [i |-> i, n |-> n]
    ELSE IF lo = hi
    THEN IF lo # i THEN [i |-> i, n |-> n]
         ELSE IF complete_cycle(extremes, i) THEN [i |-> i + 2, n |-> n + 1]
         ELSE [i |-> i + 1, n |-> n]
    ELSE LET mid == (lo + hi) \div 2
             left == scan_extremes(extremes, lo, mid, i, n)
         IN  scan_extremes(extremes, mid + 1, hi, left.i, left.n)

\* len(full_strokes) at line 47
verify_full_strokes(timeline) ==
    LET extremes == extremes_of(timeline)
    IN  scan_extremes(extremes, 0, Len(extremes) - 3, 0, 0).n

---------------------------------------------------------------------------
(* Analyzer: analyze_funscript, as the outcome of the run *)

\* Line 14 reads actions[-1]; line 23 divides by len(durations), which is
\* len(actions) - 1; from there on every division is by a count that is
\* positive when there are two actions or more
analyze_funscript(timeline) ==
    IF Len(timeline) = 0 THEN "IndexError"
    ELSE IF Len(timeline) - 1 = 0 THEN "ZeroDivisionError"
    ELSE "completed"

---------------------------------------------------------------------------
(* Runs of single functions: the arguments are chosen in the initial state *)
(* (args), one step makes the call and stores what it returns (ret).  The  *)
(* scheduler's variables are not used.                                     *)

scheduler_vars == <<actions, current_time, current_pos, full_stroke_times,
                    full_stroke_index, next_speed_change, speed_multiplier,
                    in_speed_variation, unique_actions, rng, step>>

SchedulerUnused ==
    /\ actions = <<>>
    /\ current_time = 0
    /\ current_pos = START_POS
    /\ full_stroke_times = <<>>
    /\ full_stroke_index = 0
    /\ next_speed_change = SPEED_VARIATION_INTERVAL
    /\ speed_multiplier = BASE_SPEED
    /\ in_speed_variation = FALSE
    /\ unique_actions = <<>>
    /\ rng = 1
    /\ step = NoStep

(* calculate_duration *)

\* Multipliers in thousandths: every value the scheduler can pass (1.0 and
\* 1.1 .. 1.3), and values below and above up to 200.0
DurationMultipliers ==
    {BASE_SPEED} \cup ((BASE_SPEED + BOOST_MIN)..(BASE_SPEED + BOOST_MAX))
        \cup {1, 10, 500, 2000, 10000, 25 * Milli, 49999, 50 * Milli,
              80 * Milli, 200 * Milli}

InitDuration ==
    /\ pc = "duration_call"
    /\ args \in [distance : 0..100, speed_mult : DurationMultipliers]
    /\ ret = <<>>
    /\ SchedulerUnused

DurationCall ==
    /\ pc = "duration_call"
    /\ ret' = [up |-> calculate_duration(args.distance, TRUE, args.speed_mult),
               down |-> calculate_duration(args.distance, FALSE, args.speed_mult)]
    /\ pc' = "duration_return"
    /\ UNCHANGED <<args, scheduler_vars>>

SpecDuration == InitDuration /\ [][DurationCall]_vars

(* The four segment generators *)

SegmentPositions == {p \in 0..100 : p % PosStride = 0} \cup {1, 15, 33, 49, 85, 99}

SegmentStartTimes == {0, 5250, DURATION_MS - 1}

SegmentMultipliers == {BASE_SPEED, BASE_SPEED + BOOST_MIN, 1234, BASE_SPEED + BOOST_MAX}

\* The amplitudes drawn for the points of a wave: all the same, or alternating
WaveAmplitudes(n) ==
    {[i \in 0..n |-> c] : c \in {5, 7, 10}}
        \cup {[i \in 0..n |-> IF i % 2 = 0 THEN 5 ELSE 10],
              [i \in 0..n |-> IF i % 2 = 0 THEN 10 ELSE 5]}

StrokeBudgets == {STROKE_MIN_MS, STROKE_MIN_MS + 1, 11000, STROKE_MAX_MS - 1, STROKE_MAX_MS}

InitSegments ==
    /\ pc = "segment_call"
    /\ args \in [start_pos : SegmentPositions, end_pos : SegmentPositions,
                 start_time : SegmentStartTimes, speed_mult : SegmentMultipliers]
    /\ ret = <<>>
    /\ SchedulerUnused

WaveCall ==
    /\ pc = "segment_call"
    /\ \E n \in 5..7 : \E amp \in WaveAmplitudes(n) :
         LET r == generate_wave_motion(args.start_pos, args.end_pos, args.start_time,
                                       args.speed_mult, n, amp)
         IN  ret' = [generator |-> "wave", actions |-> r.actions,
                     end_time |-> r.end_time, end_pos |-> args.end_pos, draw |-> n]
    /\ pc' = "segment_return"
    /\ UNCHANGED <<args, scheduler_vars>>

GradualCall ==
    /\ pc = "segment_call"
    /\ \E n \in 8..10 :
         LET r == generate_gradual_motion(args.start_pos, args.end_pos, args.start_time,
                                          args.speed_mult, n)
         IN  ret' = [generator |-> "gradual", actions |-> r.actions,
                     end_time |-> r.end_time, end_pos |-> args.end_pos, draw |-> n]
    /\ pc' = "segment_return"
    /\ UNCHANGED <<args, scheduler_vars>>

PlateauCall ==
    /\ pc = "segment_call"
    /\ LET r == generate_plateau_motion(args.start_pos, args.end_pos, args.start_time,
                                        args.speed_mult)
       IN  ret' = [generator |-> "plateau", actions |-> r.actions,
                   end_time |-> r.end_time, end_pos |-> args.end_pos, draw |-> 0]
    /\ pc' = "segment_return"
    /\ UNCHANGED <<args, scheduler_vars>>

\* generate_full_stroke takes no end position: args.end_pos is not passed
FullStrokeCall ==
    /\ pc = "segment_call"
    /\ \E total_duration \in StrokeBudgets :
         LET r == generate_full_stroke(args.start_pos, args.start_time,
                                       args.speed_mult, total_duration)
         IN  ret' = [generator |-> "full_stroke", actions |-> r.actions,
                     end_time |-> r.end_time, end_pos |-> r.end_pos,
                     draw |-> total_duration]
    /\ pc' = "segment_return"
    /\ UNCHANGED <<args, scheduler_vars>>

NextSegments == WaveCall \/ GradualCall \/ PlateauCall \/ FullStrokeCall

SpecSegments == InitSegments /\ [][NextSegments]_vars

(* The consumers of a timeline: the finalizer's sort and deduplication,    *)
(* the analyzer and the verifier                                           *)

RECURSIVE SeqsUpTo(_, _)
\* The sequences over S of length at most n
SeqsUpTo(S, n) ==
    IF n = 0 THEN {<<>>}
    ELSE LET shorter == SeqsUpTo(S, n - 1)
         IN  shorter \cup {Append(q, x) : q \in shorter, x \in S}

\* Lists of actions in any order, with repeated timestamps
Timelines == SeqsUpTo({Action(t, p) : t \in 0..MaxAt, p \in {0, 100}}, MaxTimelineLen)

InitTimeline ==
    /\ pc = "timeline_call"
    /\ args \in Timelines
    /\ ret = <<>>
    /\ SchedulerUnused

\* Lines 241-250 run on args
FinalizerCall ==
    /\ pc = "timeline_call"
    /\ ret' = <<SortAndDedupe(args)>>
    /\ pc' = "finalized"
    /\ UNCHANGED <<args, scheduler_vars>>

\* Lines 241-250 run again, on what they returned
FinalizerAgain ==
    /\ pc = "finalized"
    /\ ret' = Append(ret, SortAndDedupe(ret[1]))
    /\ pc' = "finalized_twice"
    /\ UNCHANGED <<args, scheduler_vars>>

AnalyzerCall ==
    /\ pc = "timeline_call"
    /\ ret' = analyze_funscript(args)
    /\ pc' = "analyzed"
    /\ UNCHANGED <<args, scheduler_vars>>

VerifierCall ==
    /\ pc = "timeline_call"
    /\ ret' = verify_full_strokes(args)
    /\ pc' = "verified"
    /\ UNCHANGED <<args, scheduler_vars>>

NextTimeline == FinalizerCall \/ FinalizerAgain \/ AnalyzerCall \/ VerifierCall

SpecTimeline == InitTimeline /\ [][NextTimeline]_vars

---------------------------------------------------------------------------
(* Claims *)

NonDecreasing(s) == \A i \in 1..(Len(s) - 1) : s[i].at <= s[i + 1].at

StrictlyIncreasing(s) == \A i \in 1..(Len(s) - 1) : s[i].at < s[i + 1].at

PositionsInRange(s) == \A i \in 1..Len(s) : s[i].pos \in 0..100

\* C1: every timeline generate_edging_script returns has strictly
\* increasing timestamps, starts at at = 0, and has every pos an integer in
\* 0..100.
C1_ReturnedTimelineWellFormed ==
    pc = "done" =>
        /\ Len(unique_actions) >= 1
        /\ unique_actions[1].at = 0
        /\ StrictlyIncreasing(unique_actions)
        /\ PositionsInRange(unique_actions)

\* A returned timeline from which the deduplication removed samples and
\* which reaches both extremes
C1_Witness ==
    /\ pc = "done"
    /\ Len(unique_actions) < Len(actions)
    /\ \E i \in 1..Len(unique_actions) : unique_actions[i].pos = 0
    /\ \E i \in 1..Len(unique_actions) : unique_actions[i].pos = 100

\* What decides the rest of the loop: the samples already emitted do not
LoopState == <<current_time, current_pos, full_stroke_index, next_speed_change,
               speed_multiplier, in_speed_variation>>

\* C2: the scheduler loop terminates for every resolution of the random
\* choices.  Stated in the form a finite run refutes: no iteration that stays
\* in the loop leaves the loop's state as it found it (an iteration that
\* does can be drawn again and again, and the loop then never ends).
C2_EveryIterationChangesLoopState ==
    [][(pc = "loop" /\ pc' = "loop") => LoopState' # LoopState]_vars

\* C3 as amended: calculate_duration(0, *, *) = 0, and for every distance
\* d in 1..100 and every multiplier m in [0.001, 50], which includes every
\* multiplier the scheduler passes, calculate_duration(d, True, m) <
\* calculate_duration(d, False, m).
C3_UpFasterForModerateMultipliers ==
    pc = "duration_return" =>
        /\ args.distance = 0 => (ret.up = 0 /\ ret.down = 0)
        /\ (args.distance > 0 /\ args.speed_mult <= 50 * Milli) => ret.up < ret.down

\* A boosted multiplier and a real distance
C3_Witness ==
    /\ pc = "duration_return"
    /\ args.distance = 75
    /\ args.speed_mult = BASE_SPEED + BOOST_MAX
    /\ ret.up = 5769
    /\ ret.down = 8653

\* C3 as stated: the same for every multiplier m > 0.
C3_UpFasterForEveryMultiplier ==
    pc = "duration_return" =>
        /\ args.distance = 0 => (ret.up = 0 /\ ret.down = 0)
        /\ args.distance > 0 => ret.up < ret.down

\* C4: every full-range cycle the generator emits lasts between 10000 and
\* 12000 ms, from its first sample to its last (end_time minus start_time).
C4_FullStrokeLastsTenToTwelveSeconds ==
    [][full_stroke_index' = full_stroke_index + 1 =>
          /\ current_time' - current_time \in STROKE_MIN_MS..STROKE_MAX_MS
          /\ Last(actions').at - actions'[Len(actions) + 1].at
                \in STROKE_MIN_MS..STROKE_MAX_MS]_vars

\* C5: on every generated timeline verify_full_strokes detects as many
\* full-range cycles as there are scheduled trigger times.
C5_VerifierFindsEveryScheduledCycle ==
    pc = "done" => verify_full_strokes(unique_actions) = Len(full_stroke_times)

\* The most one iteration can add to current_time: a pause and the longest
\* regular segment (from 100 down to the tease value 15 at multiplier 1.0),
\* or the longest full stroke (one leg up, one leg down)
LargestIterationAdvance ==
    LET regular == MAX_PAUSE_MS + (100 - 15) * BASE_MS_PER_UNIT
        stroke == ((STROKE_MAX_MS * UP_SPEED_DEN) \div (2 * UP_SPEED_NUM))
                      + (STROKE_MAX_MS \div 2)
    IN  IF regular > stroke THEN regular ELSE stroke

\* C6: the returned timeline has at least 2 actions, and its last timestamp
\* is at least total_duration and exceeds it by less than the most one
\* iteration can add.
C6_LastActionWithinOneStepOfTarget ==
    pc = "done" =>
        /\ Len(unique_actions) >= 2
        /\ Last(unique_actions).at >= DURATION_MS
        /\ Last(unique_actions).at < DURATION_MS + LargestIterationAdvance

\* A returned timeline that ends past the target
C6_Witness ==
    /\ pc = "done"
    /\ Len(unique_actions) >= 2
    /\ Last(unique_actions).at > DURATION_MS

\* C7: each of the four segment generators, given positions in 0..100, a
\* start time >= 0 and a multiplier in [1.0, 1.3], returns samples whose
\* first timestamp is start_time, whose last timestamp is the end_time
\* returned, whose timestamps never decrease, and whose positions are all in
\* 0..100.
C7_SegmentContract ==
    pc = "segment_return" =>
        /\ ret.actions[1].at = args.start_time
        /\ Last(ret.actions).at = ret.end_time
        /\ NonDecreasing(ret.actions)
        /\ PositionsInRange(ret.actions)

\* A wave down from 99 whose offset pushes a sample to the clamp at 100
C7_Witness ==
    /\ pc = "segment_return"
    /\ ret.generator = "wave"
    /\ args.start_pos = 99
    /\ args.end_pos = 85
    /\ ret.end_time > args.start_time
    /\ \E i \in 2..Len(ret.actions) : ret.actions[i].pos = 100

\* C8: the analyzer run on a timeline of zero or one action ends in an
\* 'insufficient data' outcome, never in an arithmetic or indexing fault.
C8_ShortTimelineReportsInsufficientData ==
    (pc = "analyzed" /\ Len(args) <= 1) => ret = "insufficient data"

\* C9: the sort and keep-first deduplication applied to a sequence they
\* produced return that sequence unchanged.
C9_FinalizationIdempotent ==
    pc = "finalized_twice" => ret[2] = ret[1]

\* An unsorted input with repeated timestamps, finalized twice
C9_Witness ==
    /\ pc = "finalized_twice"
    /\ Len(args) = 4
    /\ args[1].at > args[2].at
    /\ Len(ret[1]) = 2
    /\ Len(ret[2]) = 2

\* C10: the trigger times are ascending and consumed one at a time in that
\* order: the index moves only by 1, only in an iteration entered at or
\* after the next trigger time, and that iteration appends the samples of
\* one full stroke and nothing else; an iteration entered with a trigger due
\* consumes it; and when the loop is left every trigger has been consumed.
C10_TriggersConsumedOnceInOrder ==
    [][/\ \A i \in 1..(Len(full_stroke_times) - 1) :
             full_stroke_times[i] <= full_stroke_times[i + 1]
       /\ full_stroke_index' # full_stroke_index =>
             /\ full_stroke_index' = full_stroke_index + 1
             /\ full_stroke_index < Len(full_stroke_times)
             /\ current_time >= full_stroke_times[full_stroke_index + 1]
             /\ \E total_duration \in STROKE_MIN_MS..STROKE_MAX_MS :
                    actions' = actions \o generate_full_stroke(current_pos, current_time,
                                   speed_multiplier', total_duration).actions
       /\ (/\ pc = "loop"
           /\ full_stroke_index < Len(full_stroke_times)
           /\ current_time >= full_stroke_times[full_stroke_index + 1])
             => full_stroke_index' = full_stroke_index + 1
       /\ (pc = "loop" /\ pc' = "exited") => full_stroke_index' = NUM_FULL_STROKES
      ]_vars

\* The loop left with all five triggers consumed
C10_Witness ==
    /\ pc = "exited"
    /\ full_stroke_index = NUM_FULL_STROKES
    /\ Len(full_stroke_times) = NUM_FULL_STROKES


\* The speed state is consistent: the multiplier is 1.0 in NORMAL mode and
\* in [1.10, 1.30] in SPEED_BOOSTED mode, and the next boundary is a
\* positive multiple of the interval
SpeedStateConsistent ==
    /\ ~in_speed_variation => speed_multiplier = BASE_SPEED
    /\ in_speed_variation =>
          speed_multiplier \in (BASE_SPEED + BOOST_MIN)..(BASE_SPEED + BOOST_MAX)
    /\ speed_multiplier > 0
    /\ next_speed_change > 0
    /\ next_speed_change % SPEED_VARIATION_INTERVAL = 0

\* C11: the mode alternates NORMAL -> SPEED_BOOSTED -> NORMAL: an iteration
\* makes at most one transition, it makes one exactly when it is entered at
\* or past the boundary, each transition flips the mode and moves
\* next_speed_change by exactly the interval, and in every state the
\* multiplier is 1.0 in NORMAL mode and in [1.10, 1.30] in SPEED_BOOSTED mode.
C11_SpeedModeAlternates ==
    [][/\ SpeedStateConsistent
       /\ SpeedStateConsistent'
       /\ next_speed_change' \in
             {next_speed_change, next_speed_change + SPEED_VARIATION_INTERVAL}
       /\ (next_speed_change' # next_speed_change)
             <=> (in_speed_variation' # in_speed_variation)
       /\ (next_speed_change' # next_speed_change)
             <=> (pc = "loop" /\ current_time >= next_speed_change)
       /\ (next_speed_change' = next_speed_change)
             => speed_multiplier' = speed_multiplier
      ]_vars

\* Back in NORMAL mode at the second boundary, after a boosted minute
C11_Witness ==
    /\ step.speed_changed
    /\ ~in_speed_variation
    /\ speed_multiplier = BASE_SPEED
    /\ next_speed_change = 3 * SPEED_VARIATION_INTERVAL


\* C12: a pause is injected only in NORMAL mode; it moves the time at which
\* the segment starts by 0..3000 ms and leaves the position the segment
\* starts from unchanged; its held sample (new time, current_pos) is
\* appended before the segment when the pause is longer than 0, and a pause
\* of length 0 appends nothing and leaves the time as it was.
C12_PauseOnlyInNormalModeHeldIfPositive ==
    [][step'.kind = "regular" =>
          LET paused == step'.pause >= 0
              length == IF paused THEN step'.pause ELSE 0
              held == IF length > 0 THEN 1 ELSE 0
              k == Len(actions)
          IN  /\ paused => ~in_speed_variation'
              /\ length \in 0..MAX_PAUSE_MS
              /\ Len(actions') = k + held + step'.n_segment
              /\ held = 1 => actions'[k + 1] = Action(current_time + length, current_pos)
              /\ actions'[k + held + 1] = Action(current_time + length, current_pos)
      ]_vars

\* A pause of length 0 drawn in the first iteration: only the segment's
\* samples follow the initial sample
C12_Witness ==
    /\ step.kind = "regular"
    /\ step.pause = 0
    /\ step.t0 = 0
    /\ Len(actions) = 1 + step.n_segment
    /\ actions[2] = Action(0, START_POS)


\* C13: the accumulated sample list has non-decreasing timestamps in append
\* order after every iteration, whatever the iterations were, and the
\* finalizer's sort leaves the list in the order it was appended in.
C13_AppendOrderNonDecreasing ==
    [][/\ NonDecreasing(actions)
       /\ NonDecreasing(actions')
       /\ pc = "loop" => SubSeq(actions', 1, Len(actions)) = actions
       /\ pc = "exited" => actions' = with_closing(actions)
      ]_vars

\* A list accumulated from regular segments, a held pause and a full stroke
C13_Witness ==
    /\ pc = "loop"
    /\ full_stroke_index >= 1
    /\ step.kind = "regular"
    /\ step.pause > 0
    /\ Len(actions) > 100
    /\ actions[Len(actions) - step.n_segment].at > actions[Len(actions) - step.n_segment - 1].at


\* C14: a full stroke entered at position p appends samples that start at p,
\* move to the first extreme (100 if p < 50, else 0) without turning back,
\* then move to the second extreme (0 if p < 50, else 100) without turning
\* back and end there; the scheduler's current_pos is then that second
\* extreme, and no target was drawn.
C14_FullStrokeVisitsBothExtremesInOrder ==
    [][full_stroke_index' = full_stroke_index + 1 =>
          LET p == current_pos
              first_extreme == IF p < 50 THEN 100 ELSE 0
              second_extreme == IF p < 50 THEN 0 ELSE 100
              k == Len(actions)
              n == Len(actions')
              toward(e, a, b) == IF e = 100 THEN a <= b ELSE a >= b
          IN  /\ n > k + 1
              /\ actions'[k + 1].pos = p
              /\ \E i \in (k + 1)..(n - 1) :
                    /\ actions'[i].pos = first_extreme
                    /\ \A j \in (k + 1)..(i - 1) :
                          toward(first_extreme, actions'[j].pos, actions'[j + 1].pos)
                    /\ \A j \in i..(n - 1) :
                          toward(second_extreme, actions'[j].pos, actions'[j + 1].pos)
              /\ actions'[n].pos = second_extreme
              /\ current_pos' = second_extreme
              /\ step'.target = -1
      ]_vars

\* A full stroke entered at position 50, the lowest position that goes
\* down first: it ends at 100
C14_Witness ==
    /\ step.kind = "stroke"
    /\ step.p0 = 50
    /\ current_pos = 100
    /\ Last(actions).pos = 100
    /\ \E i \in (Len(actions) - step.n_segment + 1)..Len(actions) : actions[i].pos = 0

\* A full stroke entered at position 49, the highest position that goes up
\* first: it ends at 0
FullStrokeFrom49Reached ==
    /\ step.kind = "stroke"
    /\ step.p0 = 49
    /\ current_pos = 0

\* A full stroke entered at 0 or 100, where the stroke before it ended
FullStrokeAfterFullStrokeReached ==
    /\ step.kind = "stroke"
    /\ step.p0 \in {0, 100}


\* The tease values, and the band a target is drawn from otherwise
TeaseTargets == {15, 20, 85, 90}

TargetBand(pos) == IF pos < 35 THEN 45..85 ELSE IF pos > 75 THEN 25..65 ELSE 25..85

\* C15: the target of every regular segment is a tease value or lies in
\* the band of the position the iteration was entered at, so it is in
\* 15..90 and never 0 or 100, and it becomes current_pos; an iteration that
\* leaves current_pos at 0 or 100 is one that emitted a full stroke.
C15_TargetsAvoidExtremes ==
    [][/\ step'.kind = "regular" =>
             /\ step'.target \in TeaseTargets \cup TargetBand(current_pos)
             /\ step'.target \in 15..90
             /\ current_pos' = step'.target
       /\ (pc = "loop" /\ current_pos' \in {0, 100}) =>
             full_stroke_index' = full_stroke_index + 1
       /\ pc = "loop" =>
             (step'.kind = "regular" <=> full_stroke_index' = full_stroke_index)
      ]_vars

\* A regular segment entered at 0, where a full stroke ended: its target is
\* drawn from the band of the low zone
C15_Witness ==
    /\ step.kind = "regular"
    /\ step.p0 = 0
    /\ step.target \in 45..85
    /\ step.target \notin TeaseTargets
    /\ current_pos = step.target


\* The position of the first sample of s at timestamp t: the one the
\* keep-first deduplication records
FirstPosAt(s, t) ==
    LET first == CHOOSE j \in 1..Len(s) :
                    /\ s[j].at = t
                    /\ \A i \in 1..(j - 1) : s[i].at # t
    IN  s[first].pos

\* C16: whenever an iteration starts or the loop is left, the last sample
\* appended is (current_time, current_pos); the first sample of each
\* segment repeats the sample before it, at and pos; the first sample
\* appended at the timestamp current_time, which is the one the
\* deduplication keeps, has pos current_pos; and the returned timeline
\* ends with (current_time, current_pos).
C16_LastSampleIsSchedulerState ==
    [][/\ pc = "loop" =>
             LET n == Len(actions')
                 f == n - step'.n_segment + 1
             IN  /\ Last(actions) = Action(current_time, current_pos)
                 /\ Last(actions') = Action(current_time', current_pos')
                 /\ f >= 2
                 /\ actions'[f] = actions'[f - 1]
                 /\ FirstPosAt(actions', current_time') = current_pos'
       /\ pc = "exited" =>
             /\ Last(actions) = Action(current_time, current_pos)
             /\ Last(unique_actions') = Action(current_time, current_pos)
      ]_vars

\* A segment with all its samples at one timestamp (a wave from 50 to 50)
\* between two other segments: its first sample repeats the last sample
\* before it, and its offsets are not recorded
C16_Witness ==
    /\ pc = "loop"
    /\ step.kind = "regular"
    /\ step.motion = "wave"
    /\ step.t0 = current_time
    /\ Len(actions) > step.n_segment + 1
    /\ Last(actions) = Action(current_time, current_pos)
    /\ actions[Len(actions) - step.n_segment + 1] = actions[Len(actions) - step.n_segment]
    /\ \E i \in (Len(actions) - step.n_segment + 1)..Len(actions) :
          actions[i].pos # current_pos


\* C17: whenever the loop is left, the last sample appended has
\* at >= DURATION_MS; the test of line 238 is then false, and the finalizer
\* appends no closing sample: it leaves the list as the loop left it.
C17_ClosingSampleNeverAppended ==
    [][/\ (pc = "loop" /\ pc' = "exited") => Last(actions').at >= DURATION_MS
       /\ pc = "exited" =>
             /\ Last(actions).at >= DURATION_MS
             /\ ~step'.closing
             /\ actions' = actions
      ]_vars

\* A returned timeline with no closing sample and no action at exactly
\* DURATION_MS: its last action is later
C17_Witness ==
    /\ pc = "done"
    /\ ~step.closing
    /\ \A i \in 1..Len(unique_actions) : unique_actions[i].at # DURATION_MS
    /\ Last(unique_actions).at > DURATION_MS
    /\ Last(unique_actions).pos # CLOSING_POS


\* C18: an iteration adds less than one interval to current_time; once the
\* iteration's speed update is done (it is the only place the mode and the
\* boundary change, so their values after the step are those after the
\* update) the time the iteration was entered at is before the boundary and
\* not a whole interval before it, and the mode is SPEED_BOOSTED exactly
\* when floor(current_time / interval) is odd.
C18_NeverABoundaryBehind ==
    [][pc = "loop" =>
          /\ current_time' - current_time < SPEED_VARIATION_INTERVAL
          /\ current_time < next_speed_change'
          /\ current_time >= next_speed_change' - SPEED_VARIATION_INTERVAL
          /\ in_speed_variation' <=> ((current_time \div SPEED_VARIATION_INTERVAL) % 2 = 1)
      ]_vars

\* An iteration entered in the fourth minute, past the boundary that
\* starts it: it switches to SPEED_BOOSTED
C18_Witness ==
    /\ step.speed_changed
    /\ in_speed_variation
    /\ step.t0 \div SPEED_VARIATION_INTERVAL = 3
    /\ step.t0 > 3 * SPEED_VARIATION_INTERVAL
    /\ next_speed_change = 4 * SPEED_VARIATION_INTERVAL


\* C19: what generate_full_stroke returns does not depend on the speed
\* multiplier: called again with the same start position, start time and
\* drawn budget and any other multiplier, it returns the same samples, the
\* same end_time and the same end position, so a cycle at a boosted
\* multiplier lasts as long as one at 1.0.
C19_FullStrokeIgnoresSpeedMultiplier ==
    (pc = "segment_return" /\ ret.generator = "full_stroke") =>
        \A m \in SegmentMultipliers :
            LET other == generate_full_stroke(args.start_pos, args.start_time, m, ret.draw)
            IN  /\ other.actions = ret.actions
                /\ other.end_time = ret.end_time
                /\ other.end_pos = ret.end_pos

\* A full stroke at multiplier 1.3 with the largest budget: 4000 ms up and
\* 6000 ms down, as at multiplier 1.0
C19_Witness ==
    /\ pc = "segment_return"
    /\ ret.generator = "full_stroke"
    /\ args.speed_mult = BASE_SPEED + BOOST_MAX
    /\ args.start_pos = 15
    /\ ret.draw = STROKE_MAX_MS
    /\ ret.end_time - args.start_time = 10000
    /\ ret.end_pos = 0

===========================================================================
